---- MODULE Spec2Model ----
(***************************************************************************)
(* Model of scripts/py/optimize_novel.py: optimize_novel (the Normalizer), *)
(* lint_check (the Lint Pass) and main.  A file is a sequence of           *)
(* characters; a character is one of the classes the code tells apart.     *)
(***************************************************************************)
EXTENDS Integers, Sequences, FiniteSets, TLC

\* ------------------------------------------------------------ characters
A     == "a"      \* an ordinary character
SP    == "sp"     \* ASCII space
FW    == "fw"     \* full-width space U+3000
BOM   == "bom"    \* byte-order-mark U+FEFF
NL    == "nl"     \* line feed
DI    == "di"     \* the heading character U+7B2C
ZHANG == "zhang"  \* the heading character U+7AE0
D1    == "d1"     \* an ASCII digit
YI    == "yi"     \* a CJK numeral
FD    == "fd"     \* a full-width digit U+FF11 (a Unicode decimal digit)

\* str.isspace of Python: U+3000 and the line feed are whitespace, U+FEFF is not
IsSpace(c) == c \in {SP, FW, NL}

\* the character class \d of a str pattern: every Unicode decimal digit
UnicodeDigits == {D1, FD}

\* the literal numerals of the first pattern
CJKNumerals == {YI}

\* ------------------------------------------------------- string functions
RECURSIVE RStrip(_)
RStrip(s) ==
  IF s = <<>> THEN s
  ELSE IF IsSpace(s[Len(s)]) THEN RStrip(SubSeq(s, 1, Len(s) - 1))
  ELSE s

RECURSIVE LStrip(_)
LStrip(s) ==
  IF s = <<>> THEN s
  ELSE IF IsSpace(s[1]) THEN LStrip(Tail(s))
  ELSE s

Strip(s) == LStrip(RStrip(s))

RECURSIVE LStripFw(_)
LStripFw(s) ==
  IF s = <<>> THEN s
  ELSE IF s[1] = FW THEN LStripFw(Tail(s))
  ELSE s

RemoveBom(s) == SelectSeq(s, LAMBDA c : c # BOM)

\* content.split('\n'): always at least one segment
RECURSIVE SplitFrom(_, _, _)
SplitFrom(s, p, cur) ==
  IF p > Len(s) THEN <<cur>>
  ELSE IF s[p] = NL THEN <<cur>> \o SplitFrom(s, p + 1, <<>>)
  ELSE SplitFrom(s, p + 1, Append(cur, s[p]))

Split(s) == SplitFrom(s, 1, <<>>)

\* '\n'.join(lines)
RECURSIVE Join(_)
Join(ls) ==
  IF ls = <<>> THEN <<>>
  ELSE IF Len(ls) = 1 THEN ls[1]
  ELSE ls[1] \o <<NL>> \o Join(Tail(ls))

\* f.readlines(): every line keeps its line feed; no line after a final line feed
RECURSIVE ReadLinesFrom(_, _, _)
ReadLinesFrom(s, p, cur) ==
  IF p > Len(s) THEN (IF cur = <<>> THEN <<>> ELSE <<cur>>)
  ELSE IF s[p] = NL THEN <<Append(cur, NL)>> \o ReadLinesFrom(s, p + 1, <<>>)
  ELSE ReadLinesFrom(s, p + 1, Append(cur, s[p]))

ReadLines(s) == ReadLinesFrom(s, 1, <<>>)

\* decoding with utf-8-sig: one leading byte-order-mark is dropped
Decode(raw) == IF raw # <<>> /\ raw[1] = BOM THEN Tail(raw) ELSE raw

\* ------------------------------------------------------- chapter patterns
\* a pattern ^DI[class]+ZHANG is represented by its class
chapter_patterns == << CJKNumerals \cup UnicodeDigits, UnicodeDigits >>

\* the length of the run of class characters of s that starts at position p
RECURSIVE ClassRun(_, _, _)
ClassRun(class, s, p) ==
  IF p <= Len(s) /\ s[p] \in class THEN 1 + ClassRun(class, s, p + 1) ELSE 0

\* re.match of ^DI[class]+ZHANG: ZHANG is not in the class, so the greedy run decides
ReMatch(class, s) ==
  /\ Len(s) >= 3
  /\ s[1] = DI
  /\ LET k == ClassRun(class, s, 2)
     IN  k >= 1 /\ 2 + k <= Len(s) /\ s[2 + k] = ZHANG

\* ------------------------------------------------------------------ bounds
MaxLines == 3       \* source lines of a manuscript
MaxRuns == 2        \* invocations of main on the same path
MaxLintLines == 6   \* source lines of a file handed to lint_check alone

SeqsUpTo(S, n) == UNION { [1..k -> S] : k \in 1..n }

\* the lines a manuscript is drawn from
SourceLines ==
  { <<>>, <<BOM>>, <<FW, BOM>>,
    <<A>>, <<FW, FW, A>>, <<FW, A, SP>>, <<A, SP, BOM>>,
    <<DI, D1, ZHANG>>, <<DI, FD, ZHANG>>, <<FW, FW, DI, YI, D1, ZHANG, A>>,
    <<DI, ZHANG>>, <<SP, DI, D1, ZHANG>> }

\* the raw files main is run on
Files == { Join(d) : d \in SeqsUpTo(SourceLines, MaxLines) }

\* the lines of a file handed to lint_check alone
LintSourceLines == { <<>>, <<FW>>, <<A>>, <<BOM>> }

LintFiles == { Join(d) : d \in SeqsUpTo(LintSourceLines, MaxLintLines) }

\* ------------------------------------------------------------------- state
VARIABLES
  hasArg,           \* len(sys.argv) >= 2
  exists,           \* Path(input_file).exists()
  file,             \* the characters of the file at the path
  pc,               \* the position of the run
  run,              \* the number of this invocation
  events,           \* what this invocation did so far, in order
  file0,            \* the file when optimize_novel was called
  original_lines, optimized_lines, prev_empty, i, stats, ret,
  lines, li, consecutive_empty, issues

vars == << hasArg, exists, file, pc, run, events, file0,
           original_lines, optimized_lines, prev_empty, i, stats, ret,
           lines, li, consecutive_empty, issues >>

optVars == << original_lines, optimized_lines, prev_empty, i, stats >>
lintVars == << lines, li, consecutive_empty, issues >>
envVars == << hasArg, exists, run >>

NoStats == [ total_lines |-> 0, empty_lines_removed |-> 0, chapters_found |-> 0,
             formatting_fixed |-> 0, trailing_spaces_removed |-> 0 ]

Locals ==
  /\ events = <<>>
  /\ file0 = <<>>
  /\ original_lines = <<>>
  /\ optimized_lines = <<>>
  /\ prev_empty = FALSE
  /\ i = 0
  /\ stats = NoStats
  /\ ret = "none"
  /\ lines = <<>>
  /\ li = 0
  /\ consecutive_empty = 0
  /\ issues = <<>>

\* main is started: without a path, with a path that names no file, or on a file
Init ==
  /\ \/ hasArg = FALSE /\ exists = FALSE /\ file = <<>>
     \/ hasArg = TRUE /\ exists = FALSE /\ file = <<>>
     \/ hasArg = TRUE /\ exists = TRUE /\ file \in Files
  /\ pc = "main"
  /\ run = 1
  /\ Locals

\* lint_check is called on a file
InitLint ==
  /\ hasArg = TRUE /\ exists = TRUE /\ file \in LintFiles
  /\ pc = "lint_read"
  /\ run = 1
  /\ Locals

\* -------------------------------------------------------------------- main
MainNoArg ==
  /\ pc = "main" /\ ~hasArg
  /\ pc' = "exit"
  /\ UNCHANGED << envVars, file, events, file0, optVars, ret, lintVars >>

MainMissing ==
  /\ pc = "main" /\ hasArg /\ ~exists
  /\ pc' = "exit"
  /\ UNCHANGED << envVars, file, events, file0, optVars, ret, lintVars >>

\* shutil.copy2 succeeds (the copy is never read again), then
\* optimize_novel(input_file) is called
MainBackupOk ==
  /\ pc = "main" /\ hasArg /\ exists
  /\ events' = events \o << "backup_ok", "optimize_call" >>
  /\ file0' = file
  /\ pc' = "opt_read"
  /\ UNCHANGED << envVars, file, optVars, ret, lintVars >>

\* shutil.copy2 raises: a warning, and optimize_novel(input_file) is called
MainBackupFail ==
  /\ pc = "main" /\ hasArg /\ exists
  /\ events' = events \o << "backup_fail", "optimize_call" >>
  /\ file0' = file
  /\ pc' = "opt_read"
  /\ UNCHANGED << envVars, file, optVars, ret, lintVars >>

\* ---------------------------------------------------------- optimize_novel
\* a read failure that falls through to the write
OptReadFail_FallsThrough ==
  /\ pc = "opt_read"
  /\ events' = Append(events, "read_fail")
  /\ pc' = "opt_write"
  /\ UNCHANGED << envVars, file, file0, optVars, ret, lintVars >>

OptReadFail ==
  /\ pc = "opt_read"
  /\ events' = events \o << "read_fail", "optimize_false" >>
  /\ ret' = "False"
  /\ pc' = "opt_ret"
  /\ UNCHANGED << envVars, file, file0, optVars, lintVars >>

\* the content after decoding and after the second removal of a leading mark
ReadContent(raw) ==
  LET content == Decode(raw)
  IN  IF content # <<>> /\ content[1] = BOM THEN Tail(content) ELSE content

OptReadOk ==
  /\ pc = "opt_read"
  /\ events' = Append(events, "read_ok")
  /\ original_lines' = Split(ReadContent(file))
  /\ optimized_lines' = <<>>
  /\ prev_empty' = FALSE
  /\ stats' = [ NoStats EXCEPT !.total_lines = Len(Split(ReadContent(file))) ]
  /\ i' = 0
  /\ pc' = "opt_loop"
  /\ UNCHANGED << envVars, file, file0, ret, lintVars >>

\* line.rstrip().replace(BOM, '')
Stripped(line) == RemoveBom(RStrip(line))

CountTrailing(st, line) ==
  IF RStrip(line) # line
  THEN [ st EXCEPT !.trailing_spaces_removed = @ + 1 ]
  ELSE st

\* the source-line branch for an empty stripped line
OptBlank ==
  /\ pc = "opt_loop" /\ i < Len(original_lines)
  /\ LET line == original_lines[i + 1]
         st   == CountTrailing(stats, line)
     IN  /\ Stripped(line) = <<>>
         /\ IF ~prev_empty
            THEN /\ optimized_lines' = Append(optimized_lines, <<>>)
                 /\ prev_empty' = TRUE
                 /\ stats' = st
            ELSE /\ stats' = [ st EXCEPT !.empty_lines_removed = @ + 1 ]
                 /\ UNCHANGED << optimized_lines, prev_empty >>
  /\ i' = i + 1
  /\ UNCHANGED << envVars, file, pc, events, file0, original_lines, ret, lintVars >>

\* a heading that is never given a blank line before it
HeadingBefore_Never(out) == out

\* the blank line before a heading
HeadingBefore(out) ==
  IF out # <<>> /\ Strip(out[Len(out)]) # <<>> THEN Append(out, <<>>) ELSE out

\* the blank line after a heading
HeadingAfter(out, src, k) ==
  IF k + 1 < Len(src) /\ Strip(src[k + 2]) # <<>> THEN Append(out, <<>>) ELSE out

\* the for loop over chapter_patterns without its break
RECURSIVE ChapterLoop_NoBreak(_, _, _, _, _)
ChapterLoop_NoBreak(p, stripped, src, k, acc) ==
  IF p > Len(chapter_patterns) THEN acc
  ELSE LET test_line == LStripFw(stripped)
       IN  IF ReMatch(chapter_patterns[p], test_line)
           THEN ChapterLoop_NoBreak(p + 1, stripped, src, k,
                  [ is_chapter |-> TRUE,
                    found |-> acc.found + 1,
                    out |-> HeadingAfter(
                              Append(HeadingBefore(acc.out), <<FW, FW>> \o test_line),
                              src, k) ])
           ELSE ChapterLoop_NoBreak(p + 1, stripped, src, k, acc)

\* the for loop over chapter_patterns with its break; acc is
\* [is_chapter, out, found]
RECURSIVE ChapterLoop(_, _, _, _, _)
ChapterLoop(p, stripped, src, k, acc) ==
  IF p > Len(chapter_patterns) THEN acc
  ELSE LET test_line == LStripFw(stripped)
       IN  IF ReMatch(chapter_patterns[p], test_line)
           THEN [ is_chapter |-> TRUE,
                  found |-> acc.found + 1,
                  out |-> HeadingAfter(
                            Append(HeadingBefore(acc.out), <<FW, FW>> \o test_line),
                            src, k) ]
           ELSE ChapterLoop(p + 1, stripped, src, k, acc)

\* a prefix put in front of the line as it is, leading full-width spaces kept
NormalizedLine_KeepLead(stripped) == <<FW, FW>> \o stripped

\* two full-width spaces + stripped.lstrip(FW)
NormalizedLine(stripped) == <<FW, FW>> \o LStripFw(stripped)

LoopResult ==
  ChapterLoop(1, Stripped(original_lines[i + 1]), original_lines, i,
              [ is_chapter |-> FALSE, found |-> stats.chapters_found,
                out |-> optimized_lines ])

\* the source-line branch for a chapter heading
OptChapter ==
  /\ pc = "opt_loop" /\ i < Len(original_lines)
  /\ LET line == original_lines[i + 1]
         st   == CountTrailing(stats, line)
     IN  /\ Stripped(line) # <<>>
         /\ LoopResult.is_chapter
         /\ prev_empty' = FALSE
         /\ optimized_lines' = LoopResult.out
         /\ stats' = [ st EXCEPT !.chapters_found = LoopResult.found ]
  /\ i' = i + 1
  /\ UNCHANGED << envVars, file, pc, events, file0, original_lines, ret, lintVars >>

\* the source-line branch for an ordinary paragraph
OptParagraph ==
  /\ pc = "opt_loop" /\ i < Len(original_lines)
  /\ LET line     == original_lines[i + 1]
         st       == CountTrailing(stats, line)
         stripped == Stripped(line)
     IN  /\ stripped # <<>>
         /\ ~LoopResult.is_chapter
         /\ prev_empty' = FALSE
         /\ optimized_lines' = Append(LoopResult.out, NormalizedLine(stripped))
         /\ stats' = [ st EXCEPT
                         !.chapters_found = LoopResult.found,
                         !.formatting_fixed =
                            IF stripped # NormalizedLine(stripped) THEN @ + 1 ELSE @ ]
  /\ i' = i + 1
  /\ UNCHANGED << envVars, file, pc, events, file0, original_lines, ret, lintVars >>

\* the lines left by the loop that pops blank lines off the end
RECURSIVE TrimTail(_)
TrimTail(out) ==
  IF out # <<>> /\ Strip(out[Len(out)]) = <<>>
  THEN TrimTail(SubSeq(out, 1, Len(out) - 1))
  ELSE out

OptTrim ==
  /\ pc = "opt_loop" /\ i >= Len(original_lines)
  /\ optimized_lines' = TrimTail(optimized_lines)
  /\ stats' = [ stats EXCEPT !.empty_lines_removed =
                  @ + (Len(optimized_lines) - Len(TrimTail(optimized_lines))) ]
  /\ pc' = "opt_write"
  /\ UNCHANGED << envVars, file, events, file0, original_lines, prev_empty, i,
                  ret, lintVars >>

\* the file is opened, written in full, and the report is printed
OptWriteOk ==
  /\ pc = "opt_write"
  /\ file' = Join(optimized_lines)
  /\ events' = events \o << "open_w", "write_done", "optimize_true" >>
  /\ ret' = "True"
  /\ pc' = "opt_ret"
  /\ UNCHANGED << envVars, file0, optVars, lintVars >>

\* open raises (the file is as it was), or the one f.write call raises after
\* the file was opened and truncated, or a print raises after the file was
\* written in full
OptWriteFail ==
  /\ pc = "opt_write"
  /\ \/ /\ file' = file
        /\ events' = Append(events, "optimize_false")
     \/ /\ file' = <<>>
        /\ events' = events \o << "open_w", "optimize_false" >>
     \/ /\ file' = Join(optimized_lines)
        /\ events' = events \o << "open_w", "write_done", "optimize_false" >>
  /\ ret' = "False"
  /\ pc' = "opt_ret"
  /\ UNCHANGED << envVars, file0, optVars, lintVars >>

\* ------------------------------------------------------- main, continued
\* optimize_novel returned True: lint_check(input_file) is called
MainLint ==
  /\ pc = "opt_ret" /\ ret = "True"
  /\ events' = Append(events, "lint_call")
  /\ pc' = "lint_read"
  /\ UNCHANGED << envVars, file, file0, optVars, ret, lintVars >>

\* a failed optimize_novel that is followed by lint_check all the same
MainFailed_Lints ==
  /\ pc = "opt_ret" /\ ret = "False"
  /\ events' = Append(events, "lint_call")
  /\ pc' = "lint_read"
  /\ UNCHANGED << envVars, file, file0, optVars, ret, lintVars >>

\* optimize_novel returned False: the failure is printed and main ends
MainFailed ==
  /\ pc = "opt_ret" /\ ret = "False"
  /\ pc' = "done"
  /\ UNCHANGED << envVars, file, events, file0, optVars, ret, lintVars >>

\* -------------------------------------------------------------- lint_check
LintReadFail ==
  /\ pc = "lint_read"
  /\ lines' = <<>>
  /\ li' = 0
  /\ consecutive_empty' = 0
  /\ issues' = <<>>
  /\ pc' = "lint_done"
  /\ UNCHANGED << envVars, file, events, file0, optVars, ret >>

LintReadOk ==
  /\ pc = "lint_read"
  /\ lines' = ReadLines(Decode(file))
  /\ li' = 1
  /\ consecutive_empty' = 0
  /\ issues' = <<>>
  /\ pc' = "lint_loop"
  /\ UNCHANGED << envVars, file, events, file0, optVars, ret >>

Issue(n, t, c) == [ line |-> n, type |-> t, count |-> c ]

\* a counter that a non-blank line does not reset
BlankCounter_NoReset(c, line) == IF Strip(line) = <<>> THEN c + 1 ELSE c

\* check 1: the counter of consecutive blank lines after this line
BlankCounter(c, line) == IF Strip(line) = <<>> THEN c + 1 ELSE 0

\* check 1: the issue of a blank line past the second of its run
BlankIssues(c, n, line) ==
  IF Strip(line) = <<>> /\ c + 1 > 2 THEN << Issue(n, "blank_run", c + 1) >> ELSE <<>>

\* check 2: the raw line differs from its right-trimmed form
TrailingIssues(n, line) ==
  IF RStrip(line) # line THEN << Issue(n, "trailing", 0) >> ELSE <<>>

\* check 4: the byte-order-mark is in the raw line
BomIssues(n, line) ==
  IF \E k \in 1..Len(line) : line[k] = BOM THEN << Issue(n, "bom", 0) >> ELSE <<>>

\* one iteration of the for loop over the lines (check 3 records nothing)
LintLine ==
  /\ pc = "lint_loop" /\ li <= Len(lines)
  /\ consecutive_empty' = BlankCounter(consecutive_empty, lines[li])
  /\ issues' = issues \o BlankIssues(consecutive_empty, li, lines[li])
                      \o TrailingIssues(li, lines[li])
                      \o BomIssues(li, lines[li])
  /\ li' = li + 1
  /\ UNCHANGED << envVars, file, pc, events, file0, optVars, ret, lines >>

\* the loop is over: the issues are printed and lint_check returns
LintReport ==
  /\ pc = "lint_loop" /\ li > Len(lines)
  /\ pc' = "lint_done"
  /\ UNCHANGED << envVars, file, events, file0, optVars, ret, lintVars >>

\* main prints its last line and ends
MainDone ==
  /\ pc = "lint_done" /\ ret = "True"
  /\ pc' = "done"
  /\ UNCHANGED << envVars, file, events, file0, optVars, ret, lintVars >>

\* the script is run again on the file it has normalized
Reinvoke ==
  /\ pc = "done" /\ ret = "True" /\ run < MaxRuns
  /\ run' = run + 1
  /\ pc' = "main"
  /\ events' = <<>>
  /\ file0' = <<>>
  /\ original_lines' = <<>>
  /\ optimized_lines' = <<>>
  /\ prev_empty' = FALSE
  /\ i' = 0
  /\ stats' = NoStats
  /\ ret' = "none"
  /\ lines' = <<>>
  /\ li' = 0
  /\ consecutive_empty' = 0
  /\ issues' = <<>>
  /\ UNCHANGED << hasArg, exists, file >>

Next ==
  \/ MainNoArg \/ MainMissing \/ MainBackupOk \/ MainBackupFail
  \/ OptReadFail \/ OptReadOk \/ OptBlank \/ OptChapter \/ OptParagraph
  \/ OptTrim \/ OptWriteOk \/ OptWriteFail
  \/ MainLint \/ MainFailed
  \/ LintReadFail \/ LintReadOk \/ LintLine \/ LintReport
  \/ MainDone \/ Reinvoke

Spec == Init /\ [][Next]_vars

\* lint_check alone, on a file of any content
NextLint == LintReadFail \/ LintReadOk \/ LintLine \/ LintReport

SpecLint == InitLint /\ [][NextLint]_vars

\* ================================================================== claims
InEvents(e) == \E k \in 1..Len(events) : events[k] = e

\* optimize_novel has written its output and is returning True
Written == pc = "opt_ret" /\ ret = "True"

Max(a, b) == IF a >= b THEN a ELSE b

\* t is DI, then one or more characters of numerals, then ZHANG, then anything
HeadingShape(t, numerals) ==
  \E n \in 1..Len(t) :
    /\ n + 2 <= Len(t)
    /\ t[1] = DI
    /\ \A j \in 2..(n + 1) : t[j] \in numerals
    /\ t[n + 2] = ZHANG

\* the numerals as the code reads them, and with the digits 0-9 only
CodeNumerals == CJKNumerals \cup UnicodeDigits
AsciiNumerals == CJKNumerals \cup {D1}

\* an output line that is a chapter heading
IsHeadingLine(l) == HeadingShape(LStripFw(l), CodeNumerals)

HeadingIdx == { j \in 1..Len(optimized_lines) : IsHeadingLine(optimized_lines[j]) }

\* the source lines whose content has the heading shape over numerals
SourceHeadings(numerals) ==
  { k \in 1..Len(original_lines) :
      HeadingShape(LStripFw(RemoveBom(RStrip(original_lines[k]))), numerals) }

\* C1: a second run, on the file a first run wrote, writes the same file and
\* reports formatting_fixed = 0 and empty_lines_removed = 0
C1_Idempotence ==
  (run >= 2 /\ Written) =>
     /\ file = file0
     /\ stats.formatting_fixed = 0
     /\ stats.empty_lines_removed = 0

\* C2: the output never holds two adjacent empty lines
C2_NoConsecutiveBlanks ==
  Written =>
     \A j \in 1..(Len(optimized_lines) - 1) :
        ~(optimized_lines[j] = <<>> /\ optimized_lines[j + 1] = <<>>)

\* C3: every output line equals its right-trimmed form
C3_NoTrailingWhitespace ==
  Written =>
     \A j \in 1..Len(optimized_lines) :
        RStrip(optimized_lines[j]) = optimized_lines[j]

\* C4: every output line that is neither empty nor a chapter heading starts
\* with exactly two full-width spaces, and what follows them does not start
\* with a full-width space
C4_PrefixInvariant ==
  Written =>
     \A j \in 1..Len(optimized_lines) :
        LET l == optimized_lines[j]
        IN  (l # <<>> /\ ~IsHeadingLine(l)) =>
               /\ Len(l) >= 2
               /\ l[1] = FW /\ l[2] = FW
               /\ (Len(l) >= 3 => l[3] # FW)

\* C4 witness: a paragraph whose prefix had to be rewritten is in the output
C4_Witness ==
  /\ Written
  /\ stats.formatting_fixed > 0
  /\ \E k \in 1..Len(original_lines) : original_lines[k] = <<FW, A, SP>>
  /\ \E j \in 1..Len(optimized_lines) : optimized_lines[j] = <<FW, FW, A>>

C6_ReadFailureNoWrite ==
  InEvents("read_fail") =>
     /\ ret = "False"
     /\ ~InEvents("open_w")
     /\ file = file0
     /\ pc \in {"opt_ret", "done"}

\* C6 witness: the read of a file of two lines or more failed and main ended
C6_Witness ==
  /\ pc = "done"
  /\ InEvents("read_fail")
  /\ \E k \in 1..Len(file) : file[k] = NL

\* the scanned line n is blank
LBlank(n) == Strip(lines[n]) = <<>>

\* the lines s..e are a maximal run of blank lines
MaximalRun(s, e) ==
  /\ s <= e
  /\ \A n \in s..e : LBlank(n)
  /\ (s = 1 \/ ~LBlank(s - 1))
  /\ (e = Len(lines) \/ ~LBlank(e + 1))

BlankRunIdx == { k \in 1..Len(issues) : issues[k].type = "blank_run" }

\* C7: a maximal run of k blank lines gets exactly max(0, k - 2) blank-run
\* issues, one for each line past its second with that line's number, and a
\* non-blank line resets the counter
C7_LintBlankRuns ==
  /\ pc = "lint_done" =>
        /\ \A s \in 1..Len(lines) : \A e \in s..Len(lines) :
              MaximalRun(s, e) =>
                 /\ Cardinality({ k \in BlankRunIdx : issues[k].line \in s..e })
                      = Max(0, (e - s + 1) - 2)
                 /\ \A n \in s..e :
                       (n >= s + 2) <=>
                          (\E k \in BlankRunIdx :
                              issues[k].line = n /\ issues[k].count = n - s + 1)
        /\ \A k \in BlankRunIdx :
              issues[k].line \in 1..Len(lines) /\ LBlank(issues[k].line)
  /\ (pc = "lint_loop" /\ li > 1 /\ ~LBlank(li - 1)) => consecutive_empty = 0

\* C7 witness: a scan is over that met a run of four blank lines or more and,
\* after a non-blank line, another run of blank lines
C7_Witness ==
  /\ pc = "lint_done"
  /\ \E s1 \in 1..Len(lines) : \E e1 \in s1..Len(lines) :
        /\ MaximalRun(s1, e1) /\ e1 - s1 + 1 >= 4
        /\ \E s2 \in (e1 + 2)..Len(lines) : LBlank(s2)

LogIdx == 1..Len(events)

\* C8: the backup attempt precedes the Normalizer; lint_check is called only
\* after optimize_novel wrote its output and returned True, never after it
\* returned False; without a path or a file nothing runs
C8_PhaseOrdering ==
  /\ \A j \in LogIdx :
        events[j] = "optimize_call" =>
           \E b \in 1..(j - 1) : events[b] \in {"backup_ok", "backup_fail"}
  /\ \A j \in LogIdx :
        events[j] = "lint_call" =>
           \E w \in 1..(j - 1) : \E r \in (w + 1)..(j - 1) :
              events[w] = "write_done" /\ events[r] = "optimize_true"
  /\ InEvents("optimize_false") => ~InEvents("lint_call")
  /\ pc \in {"opt_read", "opt_loop", "opt_write", "opt_ret"} =>
        InEvents("optimize_call")
  /\ pc \in {"lint_read", "lint_loop", "lint_done"} => InEvents("lint_call")
  /\ (~hasArg \/ ~exists) => (events = <<>> /\ pc \in {"main", "exit"})

\* C8 witness: main ended after a failed backup, a normalization and a lint pass
C8_Witness ==
  /\ pc = "done"
  /\ InEvents("backup_fail")
  /\ InEvents("lint_call")

\* C9 as stated: chapters_found is the number of source lines of the heading
\* shape with digits 0-9 or CJK numerals, each emitted once as a heading
C9_ChapterCount_Original ==
  Written =>
     /\ stats.chapters_found = Cardinality(SourceHeadings(AsciiNumerals))
     /\ Cardinality({ j \in 1..Len(optimized_lines) :
                        HeadingShape(LStripFw(optimized_lines[j]), AsciiNumerals) })
          = Cardinality(SourceHeadings(AsciiNumerals))

\* C9 amended: chapters_found is the number of source lines of the heading
\* shape with any Unicode decimal digit or CJK numerals, each counted once and
\* emitted once as a heading
C9_ChapterCount ==
  Written =>
     /\ stats.chapters_found = Cardinality(SourceHeadings(CodeNumerals))
     /\ Cardinality(HeadingIdx) = Cardinality(SourceHeadings(CodeNumerals))

\* C9 witness: a heading that matches both patterns, a heading with a
\* full-width digit and a line that only looks like a heading were read
C9_Witness ==
  /\ Written
  /\ stats.chapters_found = 2
  /\ \E k \in 1..Len(original_lines) : original_lines[k] = <<DI, D1, ZHANG>>
  /\ \E k \in 1..Len(original_lines) : original_lines[k] = <<DI, FD, ZHANG>>
  /\ \E k \in 1..Len(original_lines) : original_lines[k] = <<DI, ZHANG>>

\* C10: lint_check records no issue on the file optimize_novel wrote
C10_OutputLintsClean ==
  (pc = "lint_done" /\ InEvents("lint_call")) => issues = <<>>

====
